---------------------------- MODULE Spec2Model ----------------------------
(***************************************************************************)
(* keymap_drawer/config.py: the three settings classes DrawConfig,         *)
(* ParseConfig and Config.  Each is a pydantic (v1) BaseSettings class, so *)
(* the behaviour of a construction is the class body (the default          *)
(* expressions, evaluated once when the module is loaded) together with    *)
(* what BaseSettings does with it: the values of a construction are the    *)
(* keyword overrides laid over the environment variables named after the   *)
(* fields, unknown names are refused, every value (the defaults too) is    *)
(* passed through the validator of the field's declared type, and the      *)
(* result is an ordinary mutable object.                                   *)
(*                                                                         *)
(* Python values are modelled as tagged records, objects live on a heap    *)
(* and are referred to by their address, so that sharing is visible.       *)
(***************************************************************************)
EXTENDS Integers, Sequences, FiniteSets, TLC

VARIABLES
    loaded,      \* whether keymap_drawer.config has been imported
    loadEnv,     \* the environment the import ran under (history variable)
    env,         \* os.environ: variable name -> text
    envWrites,   \* how many times the program has written os.environ
    cfgDefault,  \* the defaults of Config's two fields, built by the import
    heap,        \* the objects: config instances and their dicts
    muts,        \* how many assignments the program has made to its configs
    calls        \* one record per constructor call made so far (history)

vars == <<loaded, loadEnv, env, envWrites, cfgDefault, heap, muts, calls>>

---------------------------------------------------------------------------
(* Bounds of the exploration.                                              *)

\* constructor calls made in one run
MaxCalls == 2
\* of them, calls whose overrides are chosen freely (the others take no
\* override, repeat or round-trip an earlier call, or wrap an earlier instance)
MaxFree == 1
\* writes to os.environ in one run
MaxEnvWrites == 1
\* assignments to attributes and dict items of the instances in one run
MaxMuts == 1
\* integers n for which the text str(n) is recognised by int() and float()
MaxNum == 120

---------------------------------------------------------------------------
(* Python values.  t is the type; n the number of an int or a bool, the    *)
(* tenths of a float and the address of a ref; s the text of a str and the *)
(* class of a model; m the items of a dict and the fields of a model.      *)

PyVal(t, n, s, m) == [t |-> t, n |-> n, s |-> s, m |-> m]
PyInt(n) == PyVal("int", n, "", <<>>)
PyFloat(tenths) == PyVal("float", tenths, "", <<>>)
PyBool(b) == PyVal("bool", IF b THEN 1 ELSE 0, "", <<>>)
PyStr(s) == PyVal("str", 0, s, <<>>)
PyNone == PyVal("none", 0, "", <<>>)
PyDict(m) == PyVal("dict", 0, "", m)
\* a reference to the heap object at address r
PyRef(r) == PyVal("ref", r, "", <<>>)
\* a model instance that is not on the heap yet (the result of a validation)
PyModel(cls, fields) == PyVal("model", 0, cls, fields)
\* an exception raised by a conversion or a validator
Err(what) == PyVal("error", 0, what, <<>>)
IsErr(v) == v.t = "error"

EmptyMap == [k \in {} |-> PyNone]

\* a / b and a - b of the class body: / of two ints is a float
PyTrueDiv(a, b) == PyFloat((a.n * 10) \div b.n)
PySub(a, b) ==
    IF a.t = "float" \/ b.t = "float"
    THEN PyFloat((IF a.t = "float" THEN a.n ELSE a.n * 10)
                 - (IF b.t = "float" THEN b.n ELSE b.n * 10))
    ELSE PyInt(a.n - b.n)

\* str.lower() on the texts of the model that hold upper case letters
Lower(s) ==
    CASE s = "KEY_W" -> "key_w"
      [] s = "SPLIT_GAP" -> "split_gap"
      [] s = "PREPROCESS" -> "preprocess"
      [] s = "KEYCODE_MAP" -> "keycode_map"
      [] s = "DRAW_CONFIG" -> "draw_config"
      [] s = "HOME" -> "home"
      [] s = "No" -> "no"
      [] s = "True" -> "true"
      [] s = "False" -> "false"
      [] OTHER -> s

\* str(n) of an int, str(x) of a float (x in tenths)
IntStr(n) == ToString(n)
FloatStr(x) ==
    IF x < 0 THEN "-" \o ToString((-x) \div 10) \o "." \o ToString((-x) % 10)
    ELSE ToString(x \div 10) \o "." \o ToString(x % 10)

\* int(x) of a float: truncation towards zero
Trunc(x) == IF x < 0 THEN -((-x) \div 10) ELSE x \div 10

\* int(s) and float(s) of a text: the decimal texts are recognised
ParseInt(s) ==
    IF \E n \in -MaxNum..MaxNum : IntStr(n) = s
    THEN PyInt(CHOOSE n \in -MaxNum..MaxNum : IntStr(n) = s)
    ELSE Err("ValueError")
ParseFloat(s) ==
    IF \E n \in -MaxNum..MaxNum : IntStr(n) = s
    THEN PyFloat(10 * (CHOOSE n \in -MaxNum..MaxNum : IntStr(n) = s))
    ELSE IF \E x \in -MaxNum..MaxNum : FloatStr(x) = s
    THEN PyFloat(CHOOSE x \in -MaxNum..MaxNum : FloatStr(x) = s)
    ELSE Err("ValueError")

---------------------------------------------------------------------------
(* The validators pydantic runs for the declared types.                    *)

\* an int validator that lets a float through as it is
int_validator_nocast(v) ==
    CASE v.t \in {"int", "float"} -> v
      [] v.t = "bool" -> PyInt(v.n)
      [] v.t = "str" -> IF IsErr(ParseInt(v.s)) THEN Err("IntegerError") ELSE ParseInt(v.s)
      [] OTHER -> Err("IntegerError")

\* an int validator that lets a text through as it is
int_validator_lax(v) ==
    CASE v.t \in {"int", "str"} -> v
      [] v.t = "bool" -> PyInt(v.n)
      [] v.t = "float" -> PyInt(Trunc(v.n))
      [] OTHER -> Err("IntegerError")

\* int: an int is kept, anything else goes through int()
int_validator(v) ==
    CASE v.t = "int" -> v
      [] v.t = "bool" -> PyInt(v.n)
      [] v.t = "float" -> PyInt(Trunc(v.n))
      [] v.t = "str" -> IF IsErr(ParseInt(v.s)) THEN Err("IntegerError") ELSE ParseInt(v.s)
      [] OTHER -> Err("IntegerError")

\* float: a float is kept, anything else goes through float()
float_validator(v) ==
    CASE v.t = "float" -> v
      [] v.t = "int" -> PyFloat(10 * v.n)
      [] v.t = "bool" -> PyFloat(10 * v.n)
      [] v.t = "str" -> IF IsErr(ParseFloat(v.s)) THEN Err("FloatError") ELSE ParseFloat(v.s)
      [] OTHER -> Err("FloatError")

BOOL_TRUE == {"1", "on", "t", "true", "y", "yes"}
BOOL_FALSE == {"0", "off", "f", "false", "n", "no"}

\* bool: True and False are kept; the texts and numbers that mean them
bool_validator(v) ==
    CASE v.t = "bool" -> v
      [] v.t = "str" ->
            IF Lower(v.s) \in BOOL_TRUE THEN PyBool(TRUE)
            ELSE IF Lower(v.s) \in BOOL_FALSE THEN PyBool(FALSE)
            ELSE Err("BoolError")
      [] v.t = "int" ->
            IF v.n = 1 THEN PyBool(TRUE)
            ELSE IF v.n = 0 THEN PyBool(FALSE) ELSE Err("BoolError")
      [] v.t = "float" ->
            IF v.n = 10 THEN PyBool(TRUE)
            ELSE IF v.n = 0 THEN PyBool(FALSE) ELSE Err("BoolError")
      [] OTHER -> Err("BoolError")

\* str: a str is kept, a number is turned into its text
str_validator(v) ==
    CASE v.t = "str" -> v
      [] v.t = "int" -> PyStr(IntStr(v.n))
      [] v.t = "float" -> PyStr(FloatStr(v.n))
      [] v.t = "bool" -> PyStr(IF v.n = 1 THEN "True" ELSE "False")
      [] OTHER -> Err("StrError")

---------------------------------------------------------------------------
(* The class bodies, evaluated once when the module is imported.           *)

\* textwrap.dedent on a text given as its lines <<indent, rest>>: the common
\* indent of the lines that are not blank is removed, blank lines become empty
RECURSIVE Spaces(_)
Spaces(n) == IF n <= 0 THEN "" ELSE " " \o Spaces(n - 1)
Margin(lines) ==
    LET ind == {lines[i][1] : i \in {j \in 1..Len(lines) : lines[j][2] # ""}}
    IN  IF ind = {} THEN 0 ELSE CHOOSE a \in ind : \A b \in ind : a <= b
RECURSIVE JoinDedented(_, _, _)
JoinDedented(lines, margin, i) ==
    IF i > Len(lines) THEN ""
    ELSE (IF lines[i][2] = "" THEN ""
          ELSE Spaces(lines[i][1] - margin) \o lines[i][2])
         \o (IF i < Len(lines) THEN "\n" ELSE "")
         \o JoinDedented(lines, margin, i + 1)
dedent(lines) == JoinDedented(lines, Margin(lines), 1)

\* the text of the svg_style literal, by lines: <<leading spaces, rest>>
SvgStyleLiteral == <<
    <<8, "/* font and background color specifications */">>,
    <<8, "svg {">>,
    <<12, "font-family: SFMono-Regular,Consolas,Liberation Mono,Menlo,monospace;">>,
    <<12, "font-size: 14px;">>,
    <<12, "font-kerning: normal;">>,
    <<12, "text-rendering: optimizeLegibility;">>,
    <<12, "fill: #24292e;">>,
    <<8, "}">>,
    <<0, "">>,
    <<8, "/* default key styling */">>,
    <<8, "rect {">>,
    <<12, "fill: #f6f8fa;">>,
    <<12, "stroke: #d6d8da;">>,
    <<12, "stroke-width: 1;">>,
    <<8, "}">>,
    <<0, "">>,
    <<8, "/* color accent for held keys */">>,
    <<8, ".held {">>,
    <<12, "fill: #fdd;">>,
    <<8, "}">>,
    <<0, "">>,
    <<8, "/* color accent for combo boxes */">>,
    <<8, ".combo {">>,
    <<12, "fill: #cdf;">>,
    <<8, "}">>,
    <<0, "">>,
    <<8, "/* color accent for ghost (optional) keys */">>,
    <<8, ".ghost {">>,
    <<12, "fill: #ddd;">>,
    <<8, "}">>,
    <<0, "">>,
    <<8, "text {">>,
    <<12, "text-anchor: middle;">>,
    <<12, "dominant-baseline: middle;">>,
    <<8, "}">>,
    <<0, "">>,
    <<8, "/* styling for layer labels */">>,
    <<8, ".label {">>,
    <<12, "font-weight: bold;">>,
    <<12, "text-anchor: start;">>,
    <<12, "stroke: white;">>,
    <<12, "stroke-width: 2;">>,
    <<12, "paint-order: stroke;">>,
    <<8, "}">>,
    <<0, "">>,
    <<8, "/* styling for combo box label text */">>,
    <<8, ".small {">>,
    <<12, "font-size: 80%;">>,
    <<8, "}">>,
    <<0, "">>,
    <<8, "/* styling for combo dendrons */">>,
    <<8, "path {">>,
    <<12, "stroke-width: 1;">>,
    <<12, "stroke: gray;">>,
    <<12, "fill: none;">>,
    <<8, "}">>,
    <<4, "">>
>>

\* the body of class DrawConfig: field -> default expression's value
DrawConfigBody ==
    LET key_w == PyInt(60)
        key_h == PyInt(56)
    IN  [key_w |-> key_w,
         key_h |-> key_h,
         split_gap |-> PyTrueDiv(key_w, PyInt(2)),
         combo_w |-> PySub(PyTrueDiv(key_w, PyInt(2)), PyInt(2)),
         combo_h |-> PySub(PyTrueDiv(key_h, PyInt(2)), PyInt(2)),
         key_rx |-> PyInt(6),
         key_ry |-> PyInt(6),
         inner_pad_w |-> PyInt(2),
         inner_pad_h |-> PyInt(2),
         outer_pad_w |-> PyTrueDiv(key_w, PyInt(2)),
         outer_pad_h |-> key_h,
         line_spacing |-> PyInt(18),
         arc_radius |-> PyInt(6),
         arc_scale |-> PyFloat(10),
         svg_style |-> PyStr(dedent(SvgStyleLiteral))]

\* the annotations of class DrawConfig
DrawConfigTypes ==
    [key_w |-> "int", key_h |-> "int", split_gap |-> "int", combo_w |-> "int",
     combo_h |-> "int", key_rx |-> "int", key_ry |-> "int",
     inner_pad_w |-> "int", inner_pad_h |-> "int", outer_pad_w |-> "int",
     outer_pad_h |-> "int", line_spacing |-> "int", arc_radius |-> "int",
     arc_scale |-> "float", svg_style |-> "str"]

\* the grave accent, a character a TLA+ string cannot hold
Grave == "U+0060"

\* the entries of the keycode_map literal, in the order they are written
KeycodeLiteral == <<
    <<"MINUS", "-">>, <<"MINS", "-">>, <<"EQUAL", "=">>,
    <<"EQL", "=">>, <<"LEFT_BRACKET", "[">>, <<"RIGHT_BRACKET", "]">>,
    <<"BACKSLASH", "\\">>, <<"BSLS", "\\">>, <<"NONUS_HASH", "#">>,
    <<"NUHS", "#">>, <<"SEMICOLON", ";">>, <<"SCLN", ";">>,
    <<"QUOTE", "'">>, <<"QUOT", "'">>, <<"GRAVE", Grave>>,
    <<"GRV", Grave>>, <<"COMMA", ",">>, <<"COMM", ",">>,
    <<"DOT", ".">>, <<"SLASH", "/">>, <<"SLSH", "/">>,
    <<"TILDE", "~">>, <<"TILD", "~">>, <<"EXCLAIM", "!">>,
    <<"EXLM", "!">>, <<"AT", "@">>, <<"HASH", "#">>,
    <<"DOLLAR", "$">>, <<"DLR", "$">>, <<"PERCENT", "%">>,
    <<"PERC", "%">>, <<"CIRCUMFLEX", "^">>, <<"CIRC", "^">>,
    <<"AMPERSAND", "&">>, <<"AMPR", "&">>, <<"ASTERISK", "*">>,
    <<"ASTR", "*">>, <<"LEFT_PAREN", "(">>, <<"LPRN", "(">>,
    <<"RIGHT_PAREN", ")">>, <<"RPRN", ")">>, <<"UNDERSCORE", "_">>,
    <<"UNDS", "_">>, <<"PLUS", "+">>, <<"LEFT_CURLY_BRACE", "{">>,
    <<"LCBR", "{">>, <<"RIGHT_CURLY_BRACE", "}">>, <<"RCBR", "}">>,
    <<"PIPE", "|">>, <<"COLON", ":">>, <<"COLN", ":">>,
    <<"DOUBLE_QUOTE", "\"">>, <<"DQUO", "\"">>, <<"DQT", "\"">>,
    <<"LEFT_ANGLE_BRACKET", "<">>, <<"LABK", "<">>, <<"LT", "<">>,
    <<"RIGHT_ANGLE_BRACKET", ">">>, <<"RABK", ">">>, <<"GT", ">">>,
    <<"QUESTION", "?">>, <<"QUES", "?">>, <<"EXCLAMATION", "!">>,
    <<"EXCL", "!">>, <<"AT_SIGN", "@">>, <<"AT", "@">>,
    <<"HASH", "#">>, <<"POUND", "#">>, <<"DOLLAR", "$">>,
    <<"DLLR", "$">>, <<"PERCENT", "%">>, <<"PRCNT", "%">>,
    <<"CARET", "^">>, <<"AMPERSAND", "&">>, <<"AMPS", "&">>,
    <<"ASTERISK", "*">>, <<"ASTRK", "*">>, <<"STAR", "*">>,
    <<"LEFT_PARENTHESIS", "(">>, <<"LPAR", "(">>, <<"RIGHT_PARENTHESIS", ")">>,
    <<"RPAR", ")">>, <<"EQUAL", "=">>, <<"PLUS", "+">>,
    <<"MINUS", "-">>, <<"UNDERSCORE", "_">>, <<"UNDER", "_">>,
    <<"SLASH", "/">>, <<"FSLH", "/">>, <<"QUESTION", "?">>,
    <<"QMARK", "?">>, <<"BACKSLASH", "\\">>, <<"BSLH", "\\">>,
    <<"PIPE", "|">>, <<"NON_US_BACKSLASH", "\\">>, <<"PIPE2", "|">>,
    <<"NON_US_BSLH", "|">>, <<"SEMICOLON", ";">>, <<"SEMI", ";">>,
    <<"COLON", "'">>, <<"SINGLE_QUOTE", "'">>, <<"SQT", "\"">>,
    <<"APOSTROPHE", "<">>, <<"APOS", ".">>, <<"DOUBLE_QUOTES", "\"">>,
    <<"DQT", "\"">>, <<"COMMA", ",">>, <<"LESS_THAN", "<">>,
    <<"LT", "<">>, <<"PERIOD", ".">>, <<"DOT", ".">>,
    <<"GREATER_THAN", ">">>, <<"GT", ">">>, <<"LEFT_BRACKET", "[">>,
    <<"LBKT", "]">>, <<"LEFT_BRACE", "{">>, <<"RIGHT_BRACKET", "]">>,
    <<"RBKT", "]">>, <<"RIGHT_BRACE", "}">>, <<"GRAVE", Grave>>,
    <<"TILDE", "~">>, <<"NON_US_HASH", "#">>, <<"NUHS", "#">>,
    <<"TILDE2", "~">>
>>

\* a store that keeps the value a key already has
DictStoreFirst(m, k, v) == m @@ (k :> v)

\* a dict display {k1: v1, k2: v2, ...}: the entries are stored one after the
\* other, and storing under a key that is there already replaces its value
DictStore(m, k, v) == (k :> v) @@ m
\* the entries i..j stored one after the other into m
RECURSIVE StoreEntries(_, _, _, _)
StoreEntries(entries, i, j, m) ==
    IF i > j \/ i > Len(entries) THEN m
    ELSE StoreEntries(entries, i + 1, j,
                      DictStore(m, entries[i][1], PyStr(entries[i][2])))
\* all entries from the i-th on, sixteen at a time (the test on the map makes
\* TLC finish one run of entries before it starts the next)
RECURSIVE DictDisplayFrom(_, _, _)
DictDisplayFrom(entries, i, m) ==
    IF i > Len(entries) THEN m
    ELSE LET m2 == StoreEntries(entries, i, i + 15, m)
         IN  IF DOMAIN m2 = {} THEN m2 ELSE DictDisplayFrom(entries, i + 16, m2)
DictDisplay(entries) == DictDisplayFrom(entries, 1, EmptyMap)

\* the body of class ParseConfig
ParseConfigBody ==
    [preprocess |-> PyBool(TRUE),
     skip_binding_parsing |-> PyBool(FALSE),
     keycode_map |-> PyDict(DictDisplay(KeycodeLiteral))]

\* the annotations of class ParseConfig
ParseConfigTypes ==
    [preprocess |-> "bool", skip_binding_parsing |-> "bool",
     keycode_map |-> "dict"]

\* the annotations of class Config
ConfigTypes == [draw_config |-> "DrawConfig", parse_config |-> "ParseConfig"]

Classes == {"DrawConfig", "ParseConfig", "Config"}

FieldTypes(cls) ==
    CASE cls = "DrawConfig" -> DrawConfigTypes
      [] cls = "ParseConfig" -> ParseConfigTypes
      [] cls = "Config" -> ConfigTypes

FieldNames(cls) == DOMAIN FieldTypes(cls)

---------------------------------------------------------------------------
(* BaseSettings: where the values of a construction come from.             *)

\* what a construction reads besides its arguments: the heap (for the objects
\* its arguments refer to), os.environ, and the defaults of class Config
Ctx(h, e, cd) == [h |-> h, e |-> e, cd |-> cd]

\* json.loads on the documents the model's environment holds
JsonLoads(s) ==
    CASE s = "{\"COLON\": \":\"}" -> PyDict([COLON |-> PyStr(":")])
      [] s = "{\"key_h\": 7}" -> PyDict([key_h |-> PyInt(7)])
      [] OTHER -> Err("JSONDecodeError")

\* os.environ as the settings source sees it (case_sensitive = False): the
\* names in lower case
EnvVars(e) ==
    [n \in {Lower(k) : k \in DOMAIN e} |-> e[CHOOSE k \in DOMAIN e : Lower(k) = n]]

\* a field whose environment value is parsed as JSON
IsComplex(type) == type \in {"dict", "DrawConfig", "ParseConfig"}

\* EnvSettingsSource: the fields of cls that an environment variable names
\* (env_prefix is empty, so the variable is the field's name)
EnvSettings(cls, e) ==
    LET ev == EnvVars(e)
        named == FieldNames(cls) \cap DOMAIN ev
        val == [f \in named |->
                  IF IsComplex(FieldTypes(cls)[f]) THEN JsonLoads(ev[f])
                  ELSE PyStr(ev[f])]
    IN  IF \E f \in named : IsErr(val[f]) THEN Err("SettingsError")
        ELSE PyDict(val)

\* deep_update(a, b): b laid over a; where both hold a dict under a key the
\* two dicts are merged the same way
RECURSIVE deep_update(_, _)
deep_update(a, b) ==
    [k \in DOMAIN a \cup DOMAIN b |->
        IF k \notin DOMAIN b THEN a[k]
        ELSE IF k \in DOMAIN a /\ a[k].t = "dict" /\ b[k].t = "dict"
        THEN PyDict(deep_update(a[k].m, b[k].m))
        ELSE b[k]]

\* extra = ignore: no name is refused
ExtraNamesIgnored(cls, values) == {}

\* the names extra = forbid refuses: the given names that are no field's
ExtraNames(cls, values) == DOMAIN values \ FieldNames(cls)

RECURSIVE Construct(_, _, _)

\* a class body of Config run at every construction
ConfigBodyLate(ctx) ==
    LET d == Construct("DrawConfig", EmptyMap, ctx)
        p == Construct("ParseConfig", EmptyMap, ctx)
    IN  IF IsErr(d) \/ IsErr(p) THEN ctx.cd
        ELSE [draw_config |-> d, parse_config |-> p]

\* the body of class Config: its two defaults are instances, built when the
\* class statement ran
ConfigBody(ctx) == ctx.cd

\* the defaults of a class
ClassDefaults(cls, ctx) ==
    CASE cls = "DrawConfig" -> DrawConfigBody
      [] cls = "ParseConfig" -> ParseConfigBody
      [] cls = "Config" -> ConfigBody(ctx)

\* a given dict laid over the default dict instead of replacing it
FieldInputMerged(cls, f, values, ctx) ==
    LET d == CASE cls = "DrawConfig" -> DrawConfigBody
               [] cls = "ParseConfig" -> ParseConfigBody
               [] cls = "Config" -> ctx.cd
    IN  IF f \notin DOMAIN values THEN d[f]
        ELSE IF values[f].t = "dict" /\ d[f].t = "dict"
        THEN PyDict(values[f].m @@ d[f].m)
        ELSE values[f]

\* split_gap, when not given, computed from the key_w that is given
FieldInputDerived(cls, f, values, ctx) ==
    LET d == CASE cls = "DrawConfig" -> DrawConfigBody
               [] cls = "ParseConfig" -> ParseConfigBody
               [] cls = "Config" -> ctx.cd
    IN  IF f \in DOMAIN values THEN values[f]
        ELSE IF /\ cls = "DrawConfig" /\ f = "split_gap"
                /\ "key_w" \in DOMAIN values /\ values["key_w"].t = "int"
        THEN PyTrueDiv(values["key_w"], PyInt(2))
        ELSE d[f]

\* the value a field is validated from: the given one, else (a copy of) the
\* class's default
FieldInput(cls, f, values, ctx) ==
    IF f \in DOMAIN values THEN values[f] ELSE ClassDefaults(cls, ctx)[f]

\* dict(v): the items of a dict, the fields of a model instance
AsDict(v, ctx) ==
    CASE v.t = "dict" -> v
      [] v.t = "model" -> PyDict(v.m)
      [] v.t = "ref" -> PyDict(ctx.h[v.n].f)
      [] v.t = "str" /\ v.s = "" -> PyDict(EmptyMap)
      [] OTHER -> Err("DictError")

\* dict[str, str]: dict(v), then every value through the str validator, into
\* a new dict
dict_validator(v, ctx) ==
    LET d == AsDict(v, ctx)
        items == [k \in DOMAIN d.m |-> str_validator(d.m[k])]
    IN  IF IsErr(d) THEN Err("DictError")
        ELSE IF \E k \in DOMAIN items : IsErr(items[k]) THEN Err("StrError")
        ELSE PyDict(items)

\* a Model.validate that returns the instance it is given, not a copy
ModelValidateSame(cls, v, ctx) ==
    CASE v.t = "ref" /\ ctx.h[v.n].k = cls -> v
      [] v.t = "model" /\ v.s = cls -> v
      [] OTHER ->
            LET d == AsDict(v, ctx)
            IN  IF IsErr(d) THEN Err("DictError") ELSE Construct(cls, d.m, ctx)

\* Model.validate: an instance of the class is copied (the copy is shallow:
\* it holds the same field values), anything else is made a dict and the
\* class is constructed from it
ModelValidate(cls, v, ctx) ==
    CASE v.t = "ref" /\ ctx.h[v.n].k = cls -> PyModel(cls, ctx.h[v.n].f)
      [] v.t = "model" /\ v.s = cls -> v
      [] OTHER ->
            LET d == AsDict(v, ctx)
            IN  IF IsErr(d) THEN Err("DictError") ELSE Construct(cls, d.m, ctx)

\* the validation of one value against a declared type
ValidateField(type, v, ctx) ==
    CASE v.t = "none" -> Err("NoneIsNotAllowedError")
      [] type = "int" -> int_validator(v)
      [] type = "float" -> float_validator(v)
      [] type = "bool" -> bool_validator(v)
      [] type = "str" -> str_validator(v)
      [] type = "dict" -> dict_validator(v, ctx)
      [] OTHER -> ModelValidate(type, v, ctx)

\* the environment laid over the arguments
build_values_env_first(cls, kw, e) == deep_update(kw, EnvSettings(cls, e).m)

\* BaseSettings._build_values: the arguments laid over what the environment
\* gives
build_values(cls, kw, e) == deep_update(EnvSettings(cls, e).m, kw)

\* cls(**kw): the arguments over the environment, no unknown name, every
\* field validated (validate_all: the defaults too)
Construct(cls, kw, ctx) ==
    LET envd == EnvSettings(cls, ctx.e)
        values == build_values(cls, kw, ctx.e)
        validated == [f \in FieldNames(cls) |->
                        ValidateField(FieldTypes(cls)[f],
                                      FieldInput(cls, f, values, ctx), ctx)]
    IN  IF IsErr(envd) THEN Err("SettingsError")
        ELSE IF ExtraNames(cls, values) # {} THEN Err("ValidationError")
        ELSE IF \E f \in FieldNames(cls) : IsErr(validated[f])
        THEN Err("ValidationError")
        ELSE PyModel(cls, validated)

\* a class body whose default ParseConfig is given an override
ImportDefaultsOther(ctx) ==
    LET d == Construct("DrawConfig", EmptyMap, ctx)
        p == Construct("ParseConfig", "preprocess" :> PyBool(FALSE), ctx)
    IN  IF IsErr(d) \/ IsErr(p) THEN Err("ImportError")
        ELSE PyDict([draw_config |-> d, parse_config |-> p])

\* the class statement of Config: DrawConfig() and ParseConfig() are called
ImportDefaults(ctx) ==
    LET d == Construct("DrawConfig", EmptyMap, ctx)
        p == Construct("ParseConfig", EmptyMap, ctx)
    IN  IF IsErr(d) \/ IsErr(p) THEN Err("ImportError")
        ELSE PyDict([draw_config |-> d, parse_config |-> p])

---------------------------------------------------------------------------
(* Objects.  A heap object is [k |-> its class ("dict" for a dict),        *)
(* f |-> its fields (its items)]; addresses are positions in heap.         *)

RECURSIVE Alloc(_, _)
\* the values of the fields in names put on the heap one after the other
RECURSIVE AllocFields(_, _, _, _)
AllocFields(names, fields, done, h) ==
    IF names = {} THEN [h |-> h, f |-> done]
    ELSE LET f == CHOOSE x \in names : TRUE
             a == Alloc(fields[f], h)
         IN  AllocFields(names \ {f}, fields, (f :> a.v) @@ done, a.h)

\* a validated value put on the heap: a new dict becomes a dict object, a
\* new model an instance; a number, a text or a reference stays what it is
Alloc(tree, h) ==
    CASE tree.t = "dict" ->
            [h |-> Append(h, [k |-> "dict", f |-> tree.m]), v |-> PyRef(Len(h) + 1)]
      [] tree.t = "model" ->
            LET a == AllocFields(DOMAIN tree.m, tree.m, EmptyMap, h)
            IN  [h |-> Append(a.h, [k |-> tree.s, f |-> a.f]),
                 v |-> PyRef(Len(a.h) + 1)]
      [] OTHER -> [h |-> h, v |-> tree]

\* BaseModel.dict(): the fields of an instance, nested instances and dicts
\* turned into dicts of their own
RECURSIVE ToDict(_, _)
ToDict(v, h) ==
    IF v.t = "ref"
    THEN PyDict([f \in DOMAIN h[v.n].f |-> ToDict(h[v.n].f[f], h)])
    ELSE v

\* the addresses an instance reaches: itself, its groups, its dicts
RECURSIVE Reach(_, _)
Reach(r, h) ==
    {r} \cup UNION {Reach(h[r].f[f].n, h) :
                      f \in {g \in DOMAIN h[r].f : h[r].f[g].t = "ref"}}

---------------------------------------------------------------------------
(* What the caller does.                                                   *)

NoEnv == [k \in {} |-> ""]

\* the environment variables a run may set
EnvChoices ==
    {<<"SPLIT_GAP", "5">>, <<"SPLIT_GAP", "wide">>,
     <<"KEYCODE_MAP", "{\"COLON\": \":\"}">>, <<"KEYCODE_MAP", "{">>,
     <<"DRAW_CONFIG", "{\"key_h\": 7}">>, <<"HOME", "/root">>}

\* one override of one field
One(f, v) == f :> v

\* the overrides a run may pass to DrawConfig: none; for every field a value
\* of its declared type; values of other types; unknown names
DrawOverrides ==
    {EmptyMap}
    \cup {One(f, PyInt(40)) : f \in {g \in DOMAIN DrawConfigTypes : DrawConfigTypes[g] = "int"}}
    \cup {One("arc_scale", PyFloat(25)), One("svg_style", PyStr("rect {}"))}
    \cup {One("key_w", PyInt(100)) @@ One("key_h", PyInt(40))}
    \cup {One("key_w", v) : v \in {PyStr("12"), PyStr("wide"), PyFloat(15), PyBool(TRUE),
                                   PyNone, PyDict(EmptyMap)}}
    \cup {One("arc_scale", PyInt(2)), One("arc_scale", PyStr("1.5")),
          One("arc_scale", PyStr("wide")), One("svg_style", PyInt(5))}
    \cup {One("KEY_W", PyInt(100)), One("key_width", PyInt(100)) @@ One("key_h", PyInt(40))}

\* the overrides a run may pass to ParseConfig
ParseOverrides ==
    {EmptyMap}
    \cup {One("preprocess", PyBool(FALSE)), One("skip_binding_parsing", PyBool(TRUE)),
          One("keycode_map", PyDict([COLON |-> PyStr(":"), A |-> PyStr("a")])),
          One("keycode_map", PyDict(EmptyMap))}
    \cup {One("preprocess", v) : v \in {PyStr("No"), PyInt(0), PyInt(2), PyStr("maybe")}}
    \cup {One("keycode_map", v) : v \in {PyDict([A |-> PyInt(1)]), PyStr("abc"), PyInt(5)}}
    \cup {One("keycodes", PyDict(EmptyMap)), One("raw", PyBool(TRUE)) @@ One("preprocess", PyBool(FALSE))}

\* the overrides a run may pass to Config
ConfigOverrides ==
    {EmptyMap}
    \cup {One("draw_config", PyDict(One("key_w", PyInt(100)))),
          One("parse_config", PyDict(One("preprocess", PyBool(FALSE)))),
          One("draw_config", PyDict(One("key_w", PyInt(100))))
              @@ One("parse_config", PyDict(One("preprocess", PyBool(FALSE)))),
          One("draw_config", PyDict(EmptyMap))}
    \cup {One("draw_config", PyDict(One("key_width", PyInt(100)))),
          One("draw_config", PyInt(5)),
          One("parse_config", PyDict(One("preprocess", PyStr("maybe"))))}
    \cup {One("draw", PyDict(EmptyMap)),
          One("config", PyInt(1)) @@ One("parse_config", PyDict(EmptyMap))}

Overrides(cls) ==
    CASE cls = "DrawConfig" -> DrawOverrides
      [] cls = "ParseConfig" -> ParseOverrides
      [] cls = "Config" -> ConfigOverrides

\* the arguments of a call as values: an instance passed in is taken as it
\* is at the call
ArgValues(kw, h) ==
    [k \in DOMAIN kw |->
        IF kw[k].t = "ref" THEN PyModel(h[kw[k].n].k, ToDict(kw[k], h).m) ELSE kw[k]]

FreeCalls == {i \in 1..Len(calls) : calls[i].how = "new" /\ calls[i].kw # EmptyMap}

Init ==
    /\ loaded = FALSE
    /\ loadEnv = NoEnv
    /\ env = NoEnv
    /\ envWrites = 0
    /\ cfgDefault = EmptyMap
    /\ heap = <<>>
    /\ muts = 0
    /\ calls = <<>>

\* os.environ[name] = val
SetEnv(name, val) ==
    /\ envWrites < MaxEnvWrites
    /\ env' = (name :> val) @@ env
    /\ envWrites' = envWrites + 1
    /\ UNCHANGED <<loaded, loadEnv, cfgDefault, heap, muts, calls>>

\* import keymap_drawer.config: the class statements run; the import fails,
\* and nothing is defined, when a default cannot be built
Load ==
    LET d == ImportDefaults(Ctx(heap, env, EmptyMap))
    IN  /\ ~loaded
        /\ ~IsErr(d)
        /\ loaded' = TRUE
        /\ loadEnv' = env
        /\ cfgDefault' = d.m
        /\ UNCHANGED <<env, envWrites, heap, muts, calls>>

\* a constructor call cls(**kw), and the record of it
Call(cls, kw, how, src) ==
    LET r == Construct(cls, kw, Ctx(heap, env, cfgDefault))
        a == Alloc(r, heap)
        rec == [cls |-> cls, kw |-> kw, args |-> ArgValues(kw, heap), how |-> how,
                src |-> src, env |-> env]
    IN  /\ loaded
        /\ Len(calls) < MaxCalls
        /\ IF IsErr(r)
           THEN /\ heap' = heap
                /\ calls' = Append(calls, rec @@ [ok |-> FALSE, err |-> r.s, ref |-> 0,
                                                  ret |-> PyNone])
           ELSE /\ heap' = a.h
                /\ calls' = Append(calls, rec @@ [ok |-> TRUE, err |-> "", ref |-> a.v.n,
                                                  ret |-> ToDict(a.v, a.h)])
        /\ UNCHANGED <<loaded, loadEnv, env, envWrites, cfgDefault, muts>>

\* a call with overrides of the caller's choice
New(cls, kw) ==
    /\ kw = EmptyMap \/ Cardinality(FreeCalls) < MaxFree
    /\ Call(cls, kw, "new", 0)

\* the i-th call made once more, with the same arguments
Again(i) ==
    /\ calls[i].how = "new"
    /\ Call(calls[i].cls, calls[i].kw, "again", i)

\* the instance of the i-th call serialised with dict() and its class
\* constructed from the result
RoundTrip(i) ==
    /\ calls[i].ok
    /\ Call(calls[i].cls, ToDict(PyRef(calls[i].ref), heap).m, "roundtrip", i)

\* Config(f = the instance of the i-th call)
Wrap(i, f) ==
    /\ calls[i].ok
    /\ calls[i].cls # "Config"
    /\ Call("Config", One(f, PyRef(calls[i].ref)), "wrap", i)

\* obj.f = v on the instance of the i-th call or one of its groups: the
\* value is stored as it is (validate_assignment is off)
SetAttr(i, r, f, v) ==
    /\ calls[i].ok
    /\ muts < MaxMuts
    /\ r \in Reach(calls[i].ref, heap)
    /\ heap[r].k # "dict"
    /\ f \in DOMAIN heap[r].f
    /\ heap' = [heap EXCEPT ![r].f[f] = v]
    /\ muts' = muts + 1
    /\ UNCHANGED <<loaded, loadEnv, env, envWrites, cfgDefault, calls>>

\* d[k] = v on a dict of the instance of the i-th call
SetItem(i, r, k, v) ==
    /\ calls[i].ok
    /\ muts < MaxMuts
    /\ r \in Reach(calls[i].ref, heap)
    /\ heap[r].k = "dict"
    /\ heap' = [heap EXCEPT ![r].f = (k :> v) @@ @]
    /\ muts' = muts + 1
    /\ UNCHANGED <<loaded, loadEnv, env, envWrites, cfgDefault, calls>>

\* the attributes and the value the model's caller assigns
AssignedFields == {"key_w", "preprocess"}
AssignedValue == PyInt(7)

Next ==
    \/ \E c \in EnvChoices : SetEnv(c[1], c[2])
    \/ Load
    \/ \E cls \in Classes : \E kw \in Overrides(cls) : New(cls, kw)
    \/ \E i \in 1..Len(calls) : Again(i)
    \/ \E i \in 1..Len(calls) : RoundTrip(i)
    \/ \E i \in 1..Len(calls) : \E f \in DOMAIN ConfigTypes : Wrap(i, f)
    \/ \E i \in 1..Len(calls) : \E r \in 1..Len(heap) : \E f \in AssignedFields :
          SetAttr(i, r, f, AssignedValue)
    \/ \E i \in 1..Len(calls) : \E r \in 1..Len(heap) :
          SetItem(i, r, "COLON", PyStr(";"))

Spec == Init /\ [][Next]_vars

---------------------------------------------------------------------------
(* What the properties are stated with.                                    *)

OkCalls == {i \in 1..Len(calls) : calls[i].ok}

\* the environment variables of e named, in any case, after one of names
EnvNamed(names, e) == {k \in DOMAIN e : Lower(k) \in names}

\* the fields of cls whose environment variable is parsed as JSON when cls is
\* constructed
JsonNames(cls) == {f \in FieldNames(cls) : IsComplex(FieldTypes(cls)[f])}

\* every name an environment variable can reach a construction of cls by
AllNames(cls) ==
    IF cls = "Config"
    THEN FieldNames("Config") \cup FieldNames("DrawConfig") \cup FieldNames("ParseConfig")
    ELSE FieldNames(cls)

\* v is a value of the declared type
IsOfType(v, type) ==
    CASE type = "dict" -> v.t = "dict" /\ \A k \in DOMAIN v.m : v.m[k].t = "str"
      [] type \in {"int", "float", "bool", "str"} -> v.t = type
      [] OTHER -> FALSE

\* the documented defaults (section 6 of the specification)
DocumentedDraw ==
    [key_w |-> PyInt(60), key_h |-> PyInt(56), split_gap |-> PyInt(30),
     combo_w |-> PyInt(28), combo_h |-> PyInt(26), key_rx |-> PyInt(6),
     key_ry |-> PyInt(6), inner_pad_w |-> PyInt(2), inner_pad_h |-> PyInt(2),
     outer_pad_w |-> PyInt(30), outer_pad_h |-> PyInt(56),
     line_spacing |-> PyInt(18), arc_radius |-> PyInt(6), arc_scale |-> PyFloat(10)]
DocumentedParse ==
    [preprocess |-> PyBool(TRUE), skip_binding_parsing |-> PyBool(FALSE)]
Documented(cls) == IF cls = "DrawConfig" THEN DocumentedDraw ELSE DocumentedParse

\* the key identifiers of the literal table, and for each the value of its
\* last entry
LiteralKeys == {KeycodeLiteral[i][1] : i \in 1..Len(KeycodeLiteral)}
LastEntry(k) ==
    CHOOSE i \in 1..Len(KeycodeLiteral) :
        /\ KeycodeLiteral[i][1] = k
        /\ \A j \in (i + 1)..Len(KeycodeLiteral) : KeycodeLiteral[j][1] # k
LastWins == [k \in LiteralKeys |-> PyStr(KeycodeLiteral[LastEntry(k)][2])]

\* the full defaults of the two groups, as dict() shows them
FullDefault(cls) ==
    IF cls = "DrawConfig"
    THEN PyDict(DocumentedDraw @@ [svg_style |-> DrawConfigBody.svg_style])
    ELSE PyDict(DocumentedParse @@ [keycode_map |-> PyDict(LastWins)])

\* a call of DrawConfig or ParseConfig that the caller wrote out (not a
\* round trip)
Written(i) == calls[i].cls \in {"DrawConfig", "ParseConfig"} /\ calls[i].how \in {"new", "again"}

---------------------------------------------------------------------------
(* C1: DrawConfig() and ParseConfig() yield the documented defaults, the   *)
(* integer fields as integers.                                             *)

\* C1 as claimed: every call of DrawConfig or ParseConfig without overrides
\* succeeds and returns the documented defaults.
C1_Claimed ==
    \A i \in 1..Len(calls) :
        (Written(i) /\ calls[i].args = EmptyMap)
        => /\ calls[i].ok
           /\ \A f \in DOMAIN Documented(calls[i].cls) :
                 calls[i].ret.m[f] = Documented(calls[i].cls)[f]

\* C1 amended: every call of DrawConfig or ParseConfig without overrides, made
\* while no environment variable is named after a field of the class, succeeds
\* and returns the documented defaults, the integer fields as integers.
C1_Defaults ==
    \A i \in 1..Len(calls) :
        (/\ Written(i) /\ calls[i].args = EmptyMap
         /\ EnvNamed(FieldNames(calls[i].cls), calls[i].env) = {})
        => /\ calls[i].ok
           /\ \A f \in DOMAIN Documented(calls[i].cls) :
                 calls[i].ret.m[f] = Documented(calls[i].cls)[f]

\* both classes constructed without overrides, one of them with a variable in
\* the environment that names no field
C1_Witness ==
    /\ \E i \in OkCalls : calls[i].cls = "DrawConfig" /\ calls[i].args = EmptyMap
                          /\ DOMAIN calls[i].env = {"HOME"}
    /\ \E i \in OkCalls : calls[i].cls = "ParseConfig" /\ calls[i].args = EmptyMap
                          /\ EnvNamed(FieldNames("ParseConfig"), calls[i].env) = {}

---------------------------------------------------------------------------
(* C2: one field overridden by a value of its type: the field holds the    *)
(* value, the others their defaults; a keycode_map replaces the default.   *)

\* the i-th call overrides exactly field f, by a value of f's declared type
OverridesOnly(i, f) ==
    /\ Written(i)
    /\ DOMAIN calls[i].args = {f}
    /\ f \in FieldNames(calls[i].cls)
    /\ IsOfType(calls[i].args[f], FieldTypes(calls[i].cls)[f])

OnlyThatField(i, f) ==
    /\ calls[i].ok
    /\ \A g \in FieldNames(calls[i].cls) :
          calls[i].ret.m[g] = IF g = f THEN calls[i].args[f]
                              ELSE FullDefault(calls[i].cls).m[g]

\* C2 as claimed: with only f overridden by a value v of its type, f is v and
\* every other field is its default.
C2_Claimed ==
    \A i \in 1..Len(calls) : \A f \in AllNames("Config") :
        OverridesOnly(i, f) => OnlyThatField(i, f)

\* C2 amended: the same, for calls made while no environment variable is named
\* after another field of the class, nor, when f is keycode_map, after
\* keycode_map.
C2_Override ==
    \A i \in 1..Len(calls) : \A f \in AllNames("Config") :
        (/\ OverridesOnly(i, f)
         /\ EnvNamed(FieldNames(calls[i].cls) \ {f}, calls[i].env) = {}
         /\ EnvNamed({f} \cap JsonNames(calls[i].cls), calls[i].env) = {})
        => OnlyThatField(i, f)

\* keycode_map overridden by a two-entry map, with a variable in the
\* environment that names no field: the instance holds the two entries only
C2_Witness ==
    \E i \in OkCalls :
        /\ OverridesOnly(i, "keycode_map")
        /\ DOMAIN calls[i].env = {"HOME"}
        /\ DOMAIN calls[i].ret.m.keycode_map.m = {"COLON", "A"}
        /\ calls[i].ret.m.preprocess = PyBool(TRUE)

---------------------------------------------------------------------------
(* C3: the default keycode_map holds, for every key, its last entry.       *)

\* a ParseConfig built with the default keycode_map: none given, none in the
\* environment
DefaultKeymap(i) ==
    /\ calls[i].ok /\ calls[i].cls = "ParseConfig"
    /\ "keycode_map" \notin DOMAIN calls[i].args
    /\ EnvNamed({"keycode_map"}, calls[i].env) = {}

\* C3: in the default keycode_map (the class's default, and the map of every
\* ParseConfig built with it) every key identifier of the literal table occurs
\* once and maps to the value of its last entry; COLON maps to ', SQT to ",
\* APOS to . and LBKT to ].
C3_LastWins ==
    /\ ParseConfigBody.keycode_map.m = LastWins
    /\ \A i \in 1..Len(calls) :
          DefaultKeymap(i)
          => LET km == calls[i].ret.m.keycode_map.m
             IN  /\ km = LastWins
                 /\ km["COLON"] = PyStr("'")
                 /\ km["SQT"] = PyStr("\"")
                 /\ km["APOS"] = PyStr(".")
                 /\ km["LBKT"] = PyStr("]")

C3_Witness == \E i \in 1..Len(calls) : DefaultKeymap(i) /\ calls[i].args = EmptyMap

---------------------------------------------------------------------------
(* C4: the derived defaults are not recomputed from key_w and key_h.       *)

Dependents == {"split_gap", "combo_w", "combo_h", "outer_pad_w", "outer_pad_h"}

\* the i-th call overrides key_w and/or key_h by integers and nothing else
KeySizeOnly(i) ==
    /\ calls[i].cls = "DrawConfig" /\ calls[i].how \in {"new", "again"}
    /\ DOMAIN calls[i].args # {}
    /\ DOMAIN calls[i].args \subseteq {"key_w", "key_h"}
    /\ \A f \in DOMAIN calls[i].args : calls[i].args[f].t = "int"

StaleDependents(i) ==
    /\ calls[i].ok
    /\ \A f \in Dependents : calls[i].ret.m[f] = DocumentedDraw[f]

\* C4 as claimed: with key_w and/or key_h overridden and no dependent
\* overridden, the dependents are 30, 28, 26, 30 and 56.
C4_Claimed == \A i \in 1..Len(calls) : KeySizeOnly(i) => StaleDependents(i)

\* C4 amended: the same, for calls made while no environment variable is named
\* after a dependent.
C4_Stale ==
    \A i \in 1..Len(calls) :
        (KeySizeOnly(i) /\ EnvNamed(Dependents, calls[i].env) = {})
        => StaleDependents(i)

\* key_w = 100 and key_h = 40 given together
C4_Witness ==
    \E i \in OkCalls :
        /\ KeySizeOnly(i)
        /\ DOMAIN calls[i].args = {"key_w", "key_h"}
        /\ calls[i].ret.m.key_w = PyInt(100)
        /\ calls[i].ret.m.key_h = PyInt(40)

---------------------------------------------------------------------------
(* C5: an override key that names no field is rejected.                    *)

\* the i-th call passes a key that is not a field of the class, or, in a
\* dict given for a group of Config, a key that is not a field of the group
UnknownKey(i) ==
    \/ ~(DOMAIN calls[i].args \subseteq FieldNames(calls[i].cls))
    \/ /\ calls[i].cls = "Config"
       /\ \E g \in DOMAIN calls[i].args \cap FieldNames("Config") :
             /\ calls[i].args[g].t = "dict"
             /\ ~(DOMAIN calls[i].args[g].m \subseteq FieldNames(ConfigTypes[g]))

\* an environment variable read as JSON by a construction of cls holds text
\* that is not JSON
BadJsonEnv(cls, e) ==
    \E k \in EnvNamed(JsonNames(cls), e) : e[k] \notin {"{\"COLON\": \":\"}", "{\"key_h\": 7}"}

\* C5 as claimed: a call with an unknown key fails with a validation error
\* and yields no object.
C5_Claimed ==
    \A i \in 1..Len(calls) :
        UnknownKey(i) => ~calls[i].ok /\ calls[i].ref = 0 /\ calls[i].err = "ValidationError"

\* C5 amended: a call with an unknown key fails and yields no object; the
\* error is a validation error unless an environment variable named after a
\* dict-valued or group-valued field holds text that is not JSON, and then it
\* is a settings error.
C5_Forbid ==
    \A i \in 1..Len(calls) :
        UnknownKey(i)
        => /\ ~calls[i].ok
           /\ calls[i].ref = 0
           /\ calls[i].ret = PyNone
           /\ calls[i].err = IF BadJsonEnv(calls[i].cls, calls[i].env)
                             THEN "SettingsError" ELSE "ValidationError"

\* DrawConfig(KEY_W=100): the name of a field in the wrong case
C5_Witness ==
    \E i \in 1..Len(calls) :
        /\ UnknownKey(i) /\ calls[i].cls = "DrawConfig"
        /\ DOMAIN calls[i].args = {"KEY_W"}
        /\ ~calls[i].ok /\ calls[i].err = "ValidationError"

---------------------------------------------------------------------------
(* C6: a value of the wrong type is rejected, never converted.             *)

\* the i-th call gives field f a value that is not of f's declared type
WrongType(i, f) ==
    /\ calls[i].cls \in {"DrawConfig", "ParseConfig"}
    /\ DOMAIN calls[i].args \subseteq FieldNames(calls[i].cls)
    /\ f \in DOMAIN calls[i].args
    /\ ~IsOfType(calls[i].args[f], FieldTypes(calls[i].cls)[f])

\* the values no validator of the type converts: for a number, text that is
\* not a numeral, None and a dict; for a bool, text and numbers that spell
\* neither truth value; for text, None and a dict; for a dict of text, a
\* number, a text that is not empty, and a mapping with None or a dict as an
\* entry
Unconvertible(v, type) ==
    CASE type \in {"int", "float"} ->
            v.t \in {"none", "dict"} \/ (v.t = "str" /\ v.s \in {"wide", "abc", "maybe", "No", "rect {}"})
      [] type = "bool" ->
            \/ v.t \in {"none", "dict"}
            \/ v.t = "int" /\ v.n \notin {0, 1}
            \/ v.t = "float" /\ v.n \notin {0, 10}
            \/ v.t = "str" /\ v.s \in {"wide", "abc", "maybe", "12", "1.5", "rect {}"}
      [] type = "str" -> v.t \in {"none", "dict"}
      [] type = "dict" ->
            \/ v.t \in {"none", "int", "float", "bool"}
            \/ v.t = "str" /\ v.s # ""
            \/ v.t = "dict" /\ \E k \in DOMAIN v.m : v.m[k].t \in {"none", "dict"}

\* C6 as claimed: a call that gives a field a value of another type fails with
\* a validation error.
C6_Claimed ==
    \A i \in 1..Len(calls) : \A f \in AllNames("Config") :
        WrongType(i, f) => ~calls[i].ok /\ calls[i].err = "ValidationError"

\* C6 amended: a call that gives a field a value its type's validator cannot
\* convert fails (with a validation error, unless the environment holds text
\* that is not JSON for keycode_map); a convertible value is stored converted,
\* so every field of every constructed DrawConfig and ParseConfig holds a
\* value of its declared type.
C6_Typed ==
    /\ \A i \in 1..Len(calls) : \A f \in AllNames("Config") :
          (WrongType(i, f) /\ Unconvertible(calls[i].args[f], FieldTypes(calls[i].cls)[f]))
          => /\ ~calls[i].ok
             /\ calls[i].err = IF BadJsonEnv(calls[i].cls, calls[i].env)
                               THEN "SettingsError" ELSE "ValidationError"
    /\ \A i \in OkCalls :
          calls[i].cls \in {"DrawConfig", "ParseConfig"}
          => \A f \in FieldNames(calls[i].cls) :
                IsOfType(calls[i].ret.m[f], FieldTypes(calls[i].cls)[f])
    /\ \A i \in OkCalls : \A f \in AllNames("Config") :
          (WrongType(i, f) /\ calls[i].how = "new" /\ DOMAIN calls[i].args = {f})
          => /\ ~Unconvertible(calls[i].args[f], FieldTypes(calls[i].cls)[f])
             /\ calls[i].ret.m[f] # calls[i].args[f]

\* the text "12" given for key_w and stored as the integer 12
C6_Witness ==
    \E i \in OkCalls :
        /\ WrongType(i, "key_w") /\ calls[i].args.key_w = PyStr("12")
        /\ calls[i].ret.m.key_w = PyInt(12)

---------------------------------------------------------------------------
(* C7: Config is a DrawConfig and a ParseConfig; a group that is not given *)
(* is a default one.                                                       *)

\* a successful call of cls without overrides
DefaultCall(j, cls) == calls[j].ok /\ calls[j].cls = cls /\ calls[j].args = EmptyMap

\* the groups the i-th call, a successful call of Config, was not given
NotGiven(i) ==
    IF calls[i].ok /\ calls[i].cls = "Config" /\ DOMAIN calls[i].args \subseteq FieldNames("Config")
    THEN FieldNames("Config") \ DOMAIN calls[i].args
    ELSE {}

\* C7 as claimed: a group that a Config was not given equals, in every
\* field, a DrawConfig (ParseConfig) constructed without overrides.
C7_Claimed ==
    \A i \in 1..Len(calls) : \A g \in NotGiven(i) : \A j \in 1..Len(calls) :
        DefaultCall(j, ConfigTypes[g]) => calls[i].ret.m[g] = calls[j].ret

\* C7 amended: a group that a Config was not given, when no environment
\* variable was named after one of the group's fields as the module was
\* loaded and none is named after the group as the Config is constructed,
\* holds the group's documented defaults, and equals every instance of the
\* group's class constructed without overrides while no environment variable
\* is named after one of its fields.
C7_Composition ==
    \A i \in 1..Len(calls) : \A g \in NotGiven(i) :
        (/\ EnvNamed(FieldNames(ConfigTypes[g]), loadEnv) = {}
         /\ EnvNamed({g}, calls[i].env) = {})
        => /\ calls[i].ret.m[g] = FullDefault(ConfigTypes[g])
           /\ \A j \in 1..Len(calls) :
                 (/\ DefaultCall(j, ConfigTypes[g])
                  /\ EnvNamed(FieldNames(ConfigTypes[g]), calls[j].env) = {})
                 => calls[i].ret.m[g] = calls[j].ret

\* Config(draw_config = a DrawConfig with key_w 40): the Config holds that
\* key_w and a default parse_config
C7_Witness ==
    \E i \in OkCalls :
        /\ calls[i].how = "wrap"
        /\ NotGiven(i) = {"parse_config"}
        /\ calls[i].ret.m.draw_config.m.key_w = PyInt(40)
        /\ calls[i].ret.m.parse_config = FullDefault("ParseConfig")

---------------------------------------------------------------------------
(* C8: construction from the dict of an instance gives an equal instance.  *)

\* the j-th call reconstructs an instance from its dict, taken while the
\* instance was as constructed
Reconstructs(j) ==
    /\ calls[j].how = "roundtrip"
    /\ PyDict(calls[j].args) = calls[calls[j].src].ret

GroupTyped(cls, d) == \A f \in FieldNames(cls) : IsOfType(d.m[f], FieldTypes(cls)[f])

\* the same for the dict of an instance of any of the three classes
InstanceTyped(cls, d) ==
    IF cls = "Config"
    THEN \A g \in FieldNames("Config") : GroupTyped(ConfigTypes[g], d.m[g])
    ELSE GroupTyped(cls, d)

---------------------------------------------------------------------------
(* C9: the result of a construction depends on nothing but the defaults    *)
(* and the overrides.                                                      *)

SameResult(i, j) ==
    /\ calls[i].ok = calls[j].ok
    /\ calls[i].err = calls[j].err
    /\ calls[i].ret = calls[j].ret

\* the environment as a construction of cls can see it: the variables named
\* after the fields, by field
FieldEnv(cls, e) == [n \in DOMAIN EnvVars(e) \cap AllNames(cls) |-> EnvVars(e)[n]]

\* C9 as claimed: two calls of a class with the same overrides have the same
\* result.
C9_Claimed ==
    \A i, j \in 1..Len(calls) :
        (calls[i].cls = calls[j].cls /\ calls[i].args = calls[j].args) => SameResult(i, j)

\* C9 amended: two calls of a class with the same overrides have the same
\* result when the environment variables named after fields are the same at
\* both; whatever else is in the environment, whatever was constructed or
\* assigned in between. A Config that is given no dict and has no variable
\* named after a group takes its groups from the overrides and from the
\* defaults built as the module was loaded: its result does not depend on the
\* environment at the call.
C9_Determined ==
    /\ \A i, j \in 1..Len(calls) :
          (/\ calls[i].cls = calls[j].cls /\ calls[i].args = calls[j].args
           /\ FieldEnv(calls[i].cls, calls[i].env) = FieldEnv(calls[j].cls, calls[j].env))
          => SameResult(i, j)
    /\ \A i, j \in 1..Len(calls) :
          (/\ calls[i].cls = "Config" /\ calls[j].cls = "Config"
           /\ calls[i].args = calls[j].args
           /\ \A g \in DOMAIN calls[i].args : calls[i].args[g].t = "model"
           /\ EnvNamed(FieldNames("Config"), calls[i].env) = {}
           /\ EnvNamed(FieldNames("Config"), calls[j].env) = {})
          => SameResult(i, j)

\* DrawConfig called twice with the same override, HOME set and an attribute
\* of the first instance assigned in between
C9_Witness ==
    \E i, j \in OkCalls :
        /\ i < j /\ calls[j].how = "again" /\ calls[j].src = i
        /\ calls[i].cls = "DrawConfig"
        /\ calls[i].env # calls[j].env
        /\ muts > 0
        /\ calls[i].ret = calls[j].ret

---------------------------------------------------------------------------
(* C10: an instance does not change after construction.                    *)

\* the instance of the i-th call as it is now
Current(i) == ToDict(PyRef(calls[i].ref), heap)

\* the j-th call passed the instance of the i-th to Config
WrapOf(j, i) == calls[j].how = "wrap" /\ calls[j].src = i

Linked(i, j) ==
    \/ WrapOf(i, j) \/ WrapOf(j, i)
    \/ \E k \in 1..Len(calls) : WrapOf(i, k) /\ WrapOf(j, k)

\* C10 as claimed: every instance is, in every field, as it was returned.
C10_Claimed == \A i \in OkCalls : Current(i) = calls[i].ret

\* two instances hold no object in common, but for the keycode_map dict of a
\* ParseConfig that was passed to Config
Separate ==
    \A i, j \in OkCalls :
        i # j => \A r \in Reach(calls[i].ref, heap) \cap Reach(calls[j].ref, heap) :
                    heap[r].k = "dict" /\ Linked(i, j)

UnchangedButByAssignment ==
    \A i \in OkCalls :
        ToDict(PyRef(calls[i].ref), heap') # ToDict(PyRef(calls[i].ref), heap)
        => muts' = muts + 1

\* C10 amended: no validation, no construction of another instance and no
\* change of the environment changes a field of an instance; an assignment to
\* an attribute or to an entry of its keycode_map does, and nothing prevents
\* one. Instances hold no object in common but for the keycode_map of a
\* ParseConfig passed to Config, so an assignment changes the instance it is
\* made on and, through that dict alone, the instances linked to it by such a
\* call.
C10_Mutable == []Separate /\ [][UnchangedButByAssignment]_vars

\* a ParseConfig passed to Config and an entry of its keycode_map assigned:
\* the entry changes in both
C10_Witness ==
    \E i, j \in OkCalls :
        /\ WrapOf(j, i)
        /\ calls[i].cls = "ParseConfig"
        /\ DOMAIN calls[j].args = {"parse_config"}
        /\ calls[i].args = EmptyMap
        /\ Current(i).m.keycode_map.m["COLON"] = PyStr(";")
        /\ Current(j).m.parse_config.m.keycode_map.m["COLON"] = PyStr(";")
        /\ calls[i].ret.m.keycode_map.m["COLON"] = PyStr("'")

====
